---- MODULE Spec2Model ----
(***************************************************************************)
(* National-parks map (js/main.js): the chronological reveal animation,    *)
(* the counter animation, the pop-in loop they share with nothing but the  *)
(* frame clock, and the tooltip's mouse/touch interaction controller.      *)
(*                                                                         *)
(* Time is in milliseconds, measured from the reveal's own startTime       *)
(* (performance.now() at main.js:413), so that startTime = 0.  Progress    *)
(* values are kept exact as numerators over their duration instead of      *)
(* floating-point quotients.                                               *)
(***************************************************************************)
EXTENDS Integers, Sequences, FiniteSets, TLC

\* ------------------------------------------------------------------ bounds

\* Longest visit list drawn for the ordering step.
MaxVisits == 3
\* Longest visit list drawn for a playback.
MaxPlayVisits == 3
\* Frame timestamps offered to the frame clock: -EarlyMs, then 0, 100, .. 100*LastFrame.
LastFrame == 19
\* How far the first frame's timestamp may lie before startTime (see FrameTimes).
EarlyMs == 1
\* How much later than the reveal's performance.now() the counter's may read.
MaxClockLag == 1
\* Largest displacement, in units of 8 px, the relaxation may leave on a marker.
MaxPush == 1

\* --------------------------------------------------------------- constants

\* CONFIG.animationDuration
duration == 1500
\* individualDuration in animateChronologicalReveal
individualDuration == 200
\* padding argument of positionTooltip in the touchstart handler
TouchPadding == 10
\* CONFIG.simulationIterations
simulationIterations == 5

\* -------------------------------------------------------------------- data

\* parks.json: the park codes (markers).
Parks == {"a", "b", "c"}

\* visits.json dates: ISO date strings, one of them unparseable.
DateStrings == {"2020-01-01", "2021-05-01", "2022-01-01", "bad"}
\* The dates a playback's visits are drawn from.
PlayDates == {"2021-05-01"}

\* new Date(s).getTime(), in days since 2020-01-01; <<>> is NaN (Invalid Date).
DateValue(s) ==
  CASE s = "2020-01-01" -> <<0>>
    [] s = "2021-05-01" -> <<486>>
    [] s = "2022-01-01" -> <<731>>
    [] OTHER -> <<>>

IsNaN(d) == d = <<>>

VisitRecs(dates) == [parkCode : Parks, date : dates]

VisitLists(n, dates) == UNION {[1..k -> VisitRecs(dates)] : k \in 0..n}

Min(a, b) == IF a <= b THEN a ELSE b

Range(s) == {s[i] : i \in 1..Len(s)}

\* ------------------------------------------------------------- sorting

\* Mutant of CompareVisits: the comparator's operands are swapped (b - a) in
\* both sorts.
CompareVisitsSwapped(x, y, desc) ==
  LET dx == DateValue(x.date)
      dy == DateValue(y.date)
  IN IF IsNaN(dx) \/ IsNaN(dy) THEN 0 ELSE dy[1] - dx[1]

\* The comparator handed to Array.prototype.sort: new Date(x.date) - new Date(y.date)
\* (ascending) or the reverse (descending).  A NaN result is read by sort as +0.
CompareVisits(x, y, desc) ==
  LET dx == DateValue(x.date)
      dy == DateValue(y.date)
  IN IF IsNaN(dx) \/ IsNaN(dy) THEN 0
     ELSE IF desc THEN dy[1] - dx[1] ELSE dx[1] - dy[1]

\* Insert v into the sorted run: after every element that does not compare
\* greater than it (stable).
RECURSIVE InsertVisit(_, _, _)
InsertVisit(v, run, desc) ==
  IF run = <<>> THEN <<v>>
  ELSE LET last == run[Len(run)]
       IN IF CompareVisits(last, v, desc) > 0
          THEN Append(InsertVisit(v, SubSeq(run, 1, Len(run) - 1), desc), last)
          ELSE Append(run, v)

\* Array.prototype.sort with the date comparator: a stable insertion sort.
RECURSIVE SortVisits(_, _)
SortVisits(vs, desc) ==
  IF vs = <<>> THEN <<>>
  ELSE InsertVisit(vs[Len(vs)], SortVisits(SubSeq(vs, 1, Len(vs) - 1), desc), desc)

\* .filter(v => !seenParks.has(v.parkCode) ...).map(v => v.parkCode)
RECURSIVE FirstVisits(_, _)
FirstVisits(vs, seen) ==
  IF vs = <<>> THEN <<>>
  ELSE IF vs[1].parkCode \in seen THEN FirstVisits(Tail(vs), seen)
  ELSE <<vs[1].parkCode>> \o FirstVisits(Tail(vs), seen \cup {vs[1].parkCode})

\* Mutant of ChronologicalParks: the sequence holds every park.
ChronologicalParksAll(vs) == <<"a", "b", "c">>

\* chronologicalParks of animateChronologicalReveal.
ChronologicalParks(vs) == FirstVisits(SortVisits(vs, FALSE), {})

\* uniqueParks.size of updateParksCounter.
UniqueParkCount(vs) == Cardinality({vs[i].parkCode : i \in 1..Len(vs)})

\* ------------------------------------------------------------------- state

VARIABLES
  visits,              \* visits.json as loaded; sorted in place by renderVisitsTable
  placeable,           \* the parks the projector maps to a point (projection(..) non-null)
  nodes,               \* createParkNodes: the parks that are rendered as images
  phase,               \* "loaded" -> "rendered" -> "shown" -> "playing"
  now,                 \* the timestamp of the current (or last) animation frame
  counterStartTime,    \* startTime of updateParksCounter
  chronologicalParks,  \* the reveal sequence
  lastProcessedIndex,  \* the reveal cursor
  animatingParks,      \* the active pop-in tasks: [park, startTime]
  filter,              \* each image's filter attribute: "inset" or ""
  transform,           \* each image's transform attribute
  counterText,         \* <<>>: the page's static text; <<n>>: the number written
  counterComplete,     \* the counter's 'complete' class has been set
  rafQueue,            \* callbacks requested for the next frame, in request order
  running,             \* callbacks of the current frame that have not run yet
  touchState,          \* [active, currentTarget]
  tooltip,             \* [display, content, pos, flipX, flipY]
  hover,               \* the image the mouse pointer is over, or NoPark
  fingers,             \* fingers on the screen
  viewport,            \* window.visualViewport / window.innerWidth, innerHeight
  tipSize,             \* the tooltip's rendered size
  config,              \* the config handed to runForceSimulation: [simulationIterations]
  layout,              \* the node objects: park -> [r, px, py, x, y]
  loadedCount,         \* waitForImages: the images that have settled so far
  lastTouch,           \* history: the last touchstart: [target, writes, closed, ended]
  inputVisits,         \* history: visits.json as loaded, before any sort
  lastEvent,           \* history: the handler that ran last
  lastCall,            \* history: the last positionTooltip call: <<x, y, padding, w, h>>
  revealProgress,      \* history: progress numerator of the last animateReveal
  revealLog,           \* history: [index, park, animated, pass] per index processed
  revealFinishedAt,    \* history: <<t>> once animateReveal saw progress >= 1 at frame t
  tickBefore,          \* history: animatingParks when the last pop-in tick began
  tickLog,             \* history: the updates of the last pop-in tick, in order
  completions,         \* history: the park of every completed task, in order
  rafRequested         \* history: every callback ever handed to requestAnimationFrame

playHist == <<revealProgress, revealLog, revealFinishedAt, tickBefore, tickLog, completions>>
tipVars == <<touchState, tooltip, hover, fingers, lastCall, lastTouch>>
envVars == <<visits, placeable, nodes, phase, viewport, tipSize, config, layout, loadedCount,
            inputVisits>>

vars == <<visits, placeable, nodes, phase, now, counterStartTime, chronologicalParks,
          lastProcessedIndex, animatingParks, filter, transform, counterText,
          counterComplete, rafQueue, running, touchState, tooltip,
          hover, fingers, viewport, tipSize, config, layout, loadedCount, lastTouch,
          inputVisits,
          lastEvent, lastCall, revealProgress,
          revealLog, revealFinishedAt, tickBefore, tickLog, completions, rafRequested>>

NoPark == "-"

\* transform attribute values: none (attribute removed), the pop-in's
\* scale(easeOutElastic(p / individualDuration)) about the image's centre, and
\* the touch enlargement scale(1.15).
NoTransform == [kind |-> "none", p |-> 0]
PopInTransform(p) == [kind |-> "popin", p |-> p]
TouchTransform == [kind |-> "touch", p |-> 0]

\* The frame clock's timestamps.  The reveal starts inside the rendering update
\* that delivers transitionend, so the first animation frame may carry that
\* update's own timestamp, which lies before startTime.
FrameTimes == {-e : e \in 1..EarlyMs} \cup {100 * k : k \in 0..LastFrame}

HiddenTooltip == [display |-> "none", content |-> NoPark, pos |-> <<>>,
                  flipX |-> FALSE, flipY |-> FALSE]

\* No touchstart has been handled yet.
NoTouch == [target |-> NoPark, writes |-> <<>>, closed |-> FALSE, ended |-> FALSE]

\* ----------------------------------------------------------------- start-up

InitWith(visitLists, projections, viewports, tipSizes, passCounts) ==
  /\ visits \in visitLists
  /\ inputVisits = visits
  /\ placeable \in projections
  /\ viewport \in viewports
  /\ tipSize \in tipSizes
  /\ config \in [simulationIterations : passCounts]
  /\ layout = <<>>
  /\ loadedCount = 0
  /\ lastTouch = NoTouch
  /\ nodes = {}
  /\ phase = "loaded"
  /\ now = -(EarlyMs + 1)
  /\ counterStartTime = 0
  /\ chronologicalParks = <<>>
  /\ lastProcessedIndex = 0
  /\ animatingParks = <<>>
  /\ filter = <<>>
  /\ transform = <<>>
  /\ counterText = <<>>
  /\ counterComplete = FALSE
  /\ rafQueue = <<>>
  /\ running = <<>>
  /\ touchState = [active |-> FALSE, currentTarget |-> NoPark]
  /\ tooltip = HiddenTooltip
  /\ hover = NoPark
  /\ fingers = 0
  /\ lastEvent = "load"
  /\ lastCall = <<>>
  /\ revealProgress = 0
  /\ revealLog = <<>>
  /\ revealFinishedAt = <<>>
  /\ tickBefore = <<>>
  /\ tickLog = <<>>
  /\ completions = <<>>
  /\ rafRequested = {}

RECURSIVE Reverse(_)
Reverse(s) == IF s = <<>> THEN <<>> ELSE Append(Reverse(Tail(s)), Head(s))

\* Mutant of RenderedVisits: newest first, but equal dates in reversed order.
RenderedVisitsTiesReversed(vs) == IF vs = <<>> THEN vs ELSE Reverse(SortVisits(vs, FALSE))

\* renderVisitsTable: visits.sort(newest first), in place, unless the list is empty.
RenderedVisits(vs) == IF vs = <<>> THEN vs ELSE SortVisits(vs, TRUE)

\* createParkNodes: a park whose projection is null is dropped.
CreateParkNodes == {p \in Parks : p \in placeable}

\* projection([longitude, latitude]) of the placeable parks: b and c lie 10 px
\* apart, a far from both.
Coords(p) ==
  CASE p = "a" -> <<300, 200>>
    [] p = "b" -> <<100, 100>>
    [] OTHER -> <<110, 100>>

\* osParks: the parks drawn with the smaller radius.
OsParks == {"c"}

\* config.parkRadius.others / config.parkRadius.lower48
Radius(p) == IF p \in OsParks THEN 10 ELSE 16

\* The node object createParkNodes returns for a placeable park.
ParkNode(p) ==
  [r |-> Radius(p), px |-> Coords(p)[1], py |-> Coords(p)[2],
   x |-> Coords(p)[1], y |-> Coords(p)[2]]

\* Two discs overlap: the squared distance of their anchors is less than the
\* square of the sum of their radii.
Overlap(m, n) ==
  LET dx == Coords(m)[1] - Coords(n)[1]
      dy == Coords(m)[2] - Coords(n)[2]
      rr == Radius(m) + Radius(n)
  IN m # n /\ dx * dx + dy * dy < rr * rr

\* Mutant of LayoutPasses: the loop body runs before the count is tested.
LayoutPassesAtLeastOne(n) == IF n < 1 THEN 1 ELSE n

\* for (let i = 0; i < config.simulationIterations; i++) sim.tick(): the number
\* of passes run.
LayoutPasses(n) == IF n < 0 THEN 0 ELSE n

\* What the passes may leave in x of a node that overlaps another one.
Pushes == {8 * k : k \in 0..MaxPush}

\* runForceSimulation: the layouts it may leave.  sim.tick() writes x and y of
\* the nodes and nothing else of them; it moves no node while no two discs
\* overlap (every node rests on its anchor, which forceX / forceY pull it to),
\* and how far it moves overlapping ones is left open here: b and c are pushed
\* apart along the line through their centres by some amount of Pushes.
RunForceSimulation(ns, passes) ==
  IF LayoutPasses(passes) = 0 THEN {[p \in ns |-> ParkNode(p)]}
  ELSE {[p \in ns |->
           IF \E q \in ns : Overlap(p, q)
           THEN [ParkNode(p) EXCEPT
                   !.x = IF \E q \in ns : Overlap(p, q) /\ Coords(q)[1] > Coords(p)[1]
                         THEN @ - d ELSE @ + d]
           ELSE ParkNode(p)] : d \in Pushes}

\* Promise.all(..).then, up to waitForImages(images): the table, the nodes, the
\* layout and the images; loadedCount starts at 0 and no image is complete yet.
RenderMap ==
  /\ phase = "loaded"
  /\ visits' = RenderedVisits(visits)
  /\ nodes' = CreateParkNodes
  /\ layout' \in RunForceSimulation(CreateParkNodes, config.simulationIterations)
  /\ filter' = [p \in CreateParkNodes |-> "inset"]
  /\ transform' = [p \in CreateParkNodes |-> NoTransform]
  /\ loadedCount' = 0
  /\ phase' = "rendered"
  /\ lastEvent' = "renderMap"
  /\ UNCHANGED <<placeable, viewport, tipSize, config, inputVisits, now, counterStartTime,
                 chronologicalParks, lastProcessedIndex, animatingParks, counterText,
                 counterComplete, rafQueue, running, tipVars, playHist, rafRequested>>

\* Mutant of ImagesResolved: the wait resolves when the first image settles.
ImagesResolvedAtFirst(count, totalImages) == count >= 1

\* waitForImages: resolve() is called by checkComplete, when the count of settled
\* images reaches totalImages.
ImagesResolved(count, totalImages) == count = totalImages

\* The events that settle an image: both listeners are checkComplete.
SettleEvents == {"imageLoad", "imageError"}

\* checkComplete, run by an image's load or error event (each image fires one of
\* them, once).  When it resolves the wait, the svg gets its 'loaded' class and
\* start-up awaits the transition.
ImageSettled ==
  /\ phase = "rendered"
  /\ loadedCount < Cardinality(nodes)
  /\ loadedCount' = loadedCount + 1
  /\ phase' = IF ImagesResolved(loadedCount + 1, Cardinality(nodes))
              THEN "shown" ELSE phase
  /\ lastEvent' \in SettleEvents
  /\ UNCHANGED <<visits, placeable, nodes, viewport, tipSize, config, layout, inputVisits,
                 now, counterStartTime, chronologicalParks, lastProcessedIndex, animatingParks,
                 filter, transform, counterText, counterComplete, rafQueue, running,
                 tipVars, playHist, rafRequested>>

\* Mutant of StartRequests: the empty-list guards are missing.
StartRequestsUnguarded(vs) == <<"animateReveal", "animateCount">>

\* The callbacks animateChronologicalReveal and updateParksCounter request.
StartRequests(vs) == IF vs = <<>> THEN <<>> ELSE <<"animateReveal", "animateCount">>

\* updateParksCounter's synchronous part: '0' for an empty list.
StartCounterText(vs, old) == IF vs = <<>> THEN <<0>> ELSE old

\* Promise.all(..).then, from animateChronologicalReveal(images, visits) on (the
\* svg's opacity transition has ended): both animations are started and the
\* handlers are installed.
StartAnimations ==
  /\ phase = "shown"
  /\ phase' = "playing"
  /\ chronologicalParks' = IF visits = <<>> THEN <<>> ELSE ChronologicalParks(visits)
  /\ lastProcessedIndex' = 0
  /\ animatingParks' = <<>>
  /\ \E lag \in 0..MaxClockLag :
        counterStartTime' = IF visits = <<>> THEN counterStartTime ELSE lag
  /\ counterText' = StartCounterText(visits, counterText)
  /\ rafQueue' = StartRequests(visits)
  /\ rafRequested' = Range(StartRequests(visits))
  /\ touchState' = [active |-> FALSE, currentTarget |-> NoPark]
  /\ tooltip' = HiddenTooltip
  /\ lastEvent' = "start"
  /\ UNCHANGED <<visits, placeable, nodes, viewport, tipSize, config, layout,
                 loadedCount, inputVisits, now, filter, transform,
                 counterComplete, running, hover, fingers, lastCall, lastTouch,
                 playHist>>

\* ---------------------------------------------------------------- frames

\* requestAnimationFrame(cb): cb joins the callbacks of the next frame.
\* One frame runs every callback requested before it, in request order, all
\* with the frame's timestamp; callbacks requested meanwhile wait for the next.
FrameAt(t) ==
  /\ phase = "playing"
  /\ running = <<>>
  /\ rafQueue # <<>>
  /\ now' = t
  /\ running' = rafQueue
  /\ rafQueue' = <<>>
  /\ lastEvent' = "frame"
  /\ UNCHANGED <<envVars, counterStartTime, chronologicalParks, lastProcessedIndex,
                 animatingParks, filter, transform, counterText, counterComplete,
                 tipVars, playHist, rafRequested>>

BeginFrame == \E t \in FrameTimes : t > now /\ FrameAt(t)

\* ---------------------------------------------------------------- reveal

\* animateReveal: Math.min(elapsed / duration, 1), as a numerator over duration
\* (startTime is 0).
RevealProgress(t) == Min(t - 0, duration)

\* Math.floor(easeInQuad(progress) * total)
CurrentIndex(p, total) == (p * p * total) \div (duration * duration)

\* Mutant of RevealFrom: the loop rescans the sequence from its start every frame.
RevealFromStart(cursor) == 0

\* The index the reveal loop starts from: let i = lastProcessedIndex.
RevealFrom(cursor) == cursor

\* The cursor after the loop: lastProcessedIndex = currentIndex.
NextCursor(cursor, currentIndex) == currentIndex

\* for (let i = lastProcessedIndex; i < currentIndex; i++) { .. }
RECURSIVE RevealLoop(_, _, _, _)
RevealLoop(i, hi, t, st) ==
  IF i >= hi THEN st
  ELSE LET parkCode == IF i + 1 \in DOMAIN chronologicalParks
                       THEN chronologicalParks[i + 1] ELSE NoPark
           hasPark == parkCode \in nodes
           list2 == IF hasPark THEN Append(st.list, [park |-> parkCode, startTime |-> t])
                    ELSE st.list
       IN RevealLoop(i + 1, hi, t,
            [st EXCEPT
               !.filter = IF hasPark THEN [st.filter EXCEPT ![parkCode] = ""] ELSE @,
               !.list = list2,
               !.reqs = IF hasPark /\ Len(list2) = 1
                        THEN Append(@, "updateAnimatingParks") ELSE @,
               !.log = Append(@, [index |-> i, park |-> parkCode,
                                  animated |-> hasPark, pass |-> "loop"])])

\* for (let i = lastProcessedIndex; i < totalParks; i++) { .. }: the final pass.
RECURSIVE FinalLoop(_, _, _, _)
FinalLoop(i, hi, t, st) ==
  IF i >= hi THEN st
  ELSE LET parkCode == chronologicalParks[i + 1]
           hasPark == parkCode \in nodes
       IN FinalLoop(i + 1, hi, t,
            [st EXCEPT
               !.filter = IF hasPark THEN [st.filter EXCEPT ![parkCode] = ""] ELSE @,
               !.transform = IF hasPark THEN [st.transform EXCEPT ![parkCode] = NoTransform]
                             ELSE @,
               !.log = Append(@, [index |-> i, park |-> parkCode,
                                  animated |-> FALSE, pass |-> "final"])])

\* Mutant of RevealRequests: the frame is re-requested before the loop runs.
RevealRequestsFirst(loopReqs, done) ==
  IF done THEN loopReqs ELSE <<"animateReveal">> \o loopReqs

\* The callbacks one animateReveal requests, in request order: the loop's
\* requestAnimationFrame(updateAnimatingParks), then, if (progress < 1),
\* requestAnimationFrame(animateReveal).
RevealRequests(loopReqs, done) ==
  IF done THEN loopReqs ELSE Append(loopReqs, "animateReveal")

AnimateReveal ==
  /\ running # <<>>
  /\ Head(running) = "animateReveal"
  /\ LET progress == RevealProgress(now)
         total == Len(chronologicalParks)
         currentIndex == CurrentIndex(progress, total)
         st1 == RevealLoop(RevealFrom(lastProcessedIndex), currentIndex, now,
                           [filter |-> filter, transform |-> transform,
                            list |-> animatingParks, reqs |-> <<>>, log |-> revealLog])
         cursor == NextCursor(lastProcessedIndex, currentIndex)
         done == ~(progress < duration)
         st2 == IF done THEN FinalLoop(cursor, total, now, st1) ELSE st1
         reqs == RevealRequests(st1.reqs, done)
     IN /\ lastProcessedIndex' = cursor
        /\ filter' = st2.filter
        /\ transform' = st2.transform
        /\ animatingParks' = st2.list
        /\ revealLog' = st2.log
        /\ revealProgress' = progress
        /\ revealFinishedAt' = IF done THEN <<now>> ELSE revealFinishedAt
        /\ rafQueue' = rafQueue \o reqs
        /\ rafRequested' = rafRequested \cup Range(reqs)
  /\ running' = Tail(running)
  /\ lastEvent' = "animateReveal"
  /\ UNCHANGED <<envVars, now, counterStartTime, chronologicalParks, counterText,
                 counterComplete, tipVars, tickBefore, tickLog,
                 completions>>

\* ---------------------------------------------------------------- pop-in

\* updateAnimatingParks: Math.min(localElapsed / individualDuration, 1), as a
\* numerator over individualDuration.
LocalProgress(localElapsed) == Min(localElapsed, individualDuration)

\* Mutant of IsComplete: a task is taken for complete at half its duration.
IsCompleteAtHalf(localProgress) == 2 * localProgress >= individualDuration

\* if (localProgress >= 1)
IsComplete(localProgress) == localProgress >= individualDuration

\* animatingParks.splice(i, 1), i counted from 1.
RemoveAt(list, i) == SubSeq(list, 1, i - 1) \o SubSeq(list, i + 1, Len(list))

\* One iteration of the tick's loop on the task at position i (from 1).
PopInStep(i, t, st) ==
  LET parkAnim == st.list[i]
      localProgress == LocalProgress(t - parkAnim.startTime)
      done == IsComplete(localProgress)
  IN [transform |-> [st.transform EXCEPT ![parkAnim.park] =
                       IF done THEN NoTransform ELSE PopInTransform(localProgress)],
      list |-> IF done THEN RemoveAt(st.list, i) ELSE st.list,
      log |-> Append(st.log, [park |-> parkAnim.park, startTime |-> parkAnim.startTime,
                              at |-> t, progress |-> localProgress]),
      done |-> IF done THEN Append(st.done, parkAnim.park) ELSE st.done]

\* for (let i = animatingParks.length - 1; i >= 0; i--) { .. }
RECURSIVE PopInLoop(_, _, _)
PopInLoop(i, t, st) ==
  IF i < 1 THEN st ELSE PopInLoop(i - 1, t, PopInStep(i, t, st))

\* for (let i = 0; i < animatingParks.length; i++) { .. }: the same body, iterated
\* forwards over the list it splices.
RECURSIVE PopInLoopForward(_, _, _)
PopInLoopForward(i, t, st) ==
  IF i > Len(st.list) THEN st ELSE PopInLoopForward(i + 1, t, PopInStep(i, t, st))

\* Mutant of PopInTick: the tick iterates forwards.
PopInTickForward(t, list, tr) ==
  PopInLoopForward(1, t, [transform |-> tr, list |-> list, log |-> <<>>, done |-> <<>>])

\* The loop of one tick over the active list.
PopInTick(t, list, tr) ==
  PopInLoop(Len(list), t, [transform |-> tr, list |-> list, log |-> <<>>, done |-> <<>>])

\* Mutant of PopInRequests: the loop polls, whether or not a task is left.
PopInRequestsAlways(list) == <<"updateAnimatingParks">>

\* Mutant of PopInRequests: the loop never continues.
PopInRequestsNever(list) == <<>>

\* if (animatingParks.length > 0) requestAnimationFrame(updateAnimatingParks)
PopInRequests(list) == IF Len(list) > 0 THEN <<"updateAnimatingParks">> ELSE <<>>

UpdateAnimatingParks ==
  /\ running # <<>>
  /\ Head(running) = "updateAnimatingParks"
  /\ LET st == PopInTick(now, animatingParks, transform)
     IN /\ transform' = st.transform
        /\ animatingParks' = st.list
        /\ tickBefore' = animatingParks
        /\ tickLog' = st.log
        /\ completions' = completions \o st.done
        /\ rafQueue' = rafQueue \o PopInRequests(st.list)
        /\ rafRequested' = rafRequested \cup Range(PopInRequests(st.list))
  /\ running' = Tail(running)
  /\ lastEvent' = "updateAnimatingParks"
  /\ UNCHANGED <<envVars, now, counterStartTime, chronologicalParks, lastProcessedIndex,
                 filter, counterText, counterComplete, tipVars,
                 revealProgress, revealLog, revealFinishedAt>>

\* --------------------------------------------------------------- counter

\* animateCount: Math.min(elapsed / duration, 1), as a numerator over duration.
CountProgress(t) == Min(t - counterStartTime, duration)

AnimateCount ==
  /\ running # <<>>
  /\ Head(running) = "animateCount"
  /\ LET progress == CountProgress(now)
         targetCount == UniqueParkCount(visits)
         currentCount == CurrentIndex(progress, targetCount)
     IN IF progress < duration
        THEN /\ counterText' = <<currentCount>>
             /\ rafQueue' = Append(rafQueue, "animateCount")
             /\ UNCHANGED <<counterComplete>>
        ELSE /\ counterText' = <<targetCount>>
             /\ counterComplete' = TRUE
             /\ rafQueue' = rafQueue
  /\ running' = Tail(running)
  /\ lastEvent' = "animateCount"
  /\ UNCHANGED <<envVars, now, counterStartTime, chronologicalParks, lastProcessedIndex,
                 animatingParks, filter, transform, tipVars, playHist, rafRequested>>

\* --------------------------------------------------------------- tooltip

\* const vv = window.visualViewport; viewportWidth = vv ? vv.width : window.innerWidth ..
ViewportWidth == IF viewport.vv THEN viewport.width ELSE viewport.innerWidth
ViewportHeight == IF viewport.vv THEN viewport.height ELSE viewport.innerHeight
OffsetX == IF viewport.vv THEN viewport.offsetLeft ELSE 0
OffsetY == IF viewport.vv THEN viewport.offsetTop ELSE 0

\* tipNode.offsetWidth / offsetHeight: the rendered size, 0 while display is none.
OffsetWidth(tt) == IF tt.display = "none" THEN 0 ELSE tipSize.w
OffsetHeight(tt) == IF tt.display = "none" THEN 0 ELSE tipSize.h

\* Mutant of FlipX: >= for >.
FlipXInclusive(x, tipW, padding) == (x - OffsetX) + tipW >= ViewportWidth - padding

\* const flipX = (relativeX + tipW > viewportWidth - padding)
FlipX(x, tipW, padding) == (x - OffsetX) + tipW > ViewportWidth - padding

\* Mutant of FlipY: the vertical axis is never flipped.
FlipYNever(y, tipH, padding) == FALSE

\* const flipY = (relativeY + tipH > viewportHeight - padding)
FlipY(y, tipH, padding) == (y - OffsetY) + tipH > ViewportHeight - padding

\* positionTooltip(tooltip, x, y, padding)
PositionTooltip(tt, x, y, padding) ==
  [tt EXCEPT !.pos = <<x, y>>,
             !.flipX = FlipX(x, OffsetWidth(tt), padding),
             !.flipY = FlipY(y, OffsetHeight(tt), padding)]

\* What positionTooltip read: <<x, y, padding, tipW, tipH>>.
PositionCall(tt, x, y, padding) == <<x, y, padding, OffsetWidth(tt), OffsetHeight(tt)>>

\* showTooltip(tooltip, tipImg, tipName, parkData)
ShowTooltip(tt, m) == [tt EXCEPT !.content = m, !.display = "block"]

\* Mutant of HideTooltip: the tooltip stays as it is.
HideTooltipKeep(tt) == tt

\* hideTooltip(tooltip)
HideTooltip(tt) == [tt EXCEPT !.display = "none"]

\* Where the style sheet puts the tooltip for --tx, --ty and the flip classes: its
\* origin at the anchor on an unflipped axis, its far edge at the anchor on a
\* flipped one.
TooltipLeft(x, tipW, flipX) == IF flipX THEN x - tipW ELSE x
TooltipTop(y, tipH, flipY) == IF flipY THEN y - tipH ELSE y

\* clientX / clientY of the pointer and touch events of the model.
Xs == {10, 200, 395}
Ys == {10, 220, 290}

\* ----------------------------------------------------------- mouse input

\* Mutant of MouseSuppressed: the mouse handlers do not look at touchState.
MouseNeverSuppressed == FALSE

\* The guard of the three mouse handlers: if (!touchState.active) { .. }
MouseSuppressed == touchState.active

Interactive == phase = "playing" /\ running = <<>>

playFrame == <<now, counterStartTime, chronologicalParks, lastProcessedIndex,
               animatingParks, filter, counterText, counterComplete, rafQueue, running,
               playHist, rafRequested>>

\* images.on('mouseover', ..): the pointer enters image m.
MouseOver(m) ==
  /\ Interactive
  /\ hover = NoPark
  /\ hover' = m
  /\ tooltip' = IF MouseSuppressed THEN tooltip ELSE ShowTooltip(tooltip, m)
  /\ lastEvent' = "mouseover"
  /\ UNCHANGED <<envVars, playFrame, transform, touchState, fingers, lastCall, lastTouch>>

\* images.on('mousemove', ..): the pointer moves over an image.
MouseMove(x, y) ==
  /\ Interactive
  /\ hover # NoPark
  /\ tooltip' = IF MouseSuppressed THEN tooltip ELSE PositionTooltip(tooltip, x, y, 0)
  /\ lastCall' = IF MouseSuppressed THEN lastCall ELSE PositionCall(tooltip, x, y, 0)
  /\ lastEvent' = "mousemove"
  /\ UNCHANGED <<envVars, playFrame, transform, touchState, fingers, hover, lastTouch>>

\* images.on('mouseout', ..): the pointer leaves the image.
MouseOut ==
  /\ Interactive
  /\ hover # NoPark
  /\ hover' = NoPark
  /\ tooltip' = IF MouseSuppressed THEN tooltip ELSE HideTooltip(tooltip)
  /\ lastEvent' = "mouseout"
  /\ UNCHANGED <<envVars, playFrame, transform, touchState, fingers, lastCall, lastTouch>>

\* ----------------------------------------------------------- touch input

\* Fingers that may be on the screen at once.
MaxFingers == 1
\* Frame callbacks that may be pending when a touch ends.
MaxPendingFrames == 2

\* Mutant of ClearPrevious: the previously selected image keeps its transform.
ClearPreviousNever(prev, tr) == tr

\* if (touchState.currentTarget) d3.select(touchState.currentTarget).attr('transform', null)
ClearPrevious(prev, tr) == IF prev # NoPark THEN [tr EXCEPT ![prev] = NoTransform] ELSE tr

\* images.on('touchstart', ..) on image m, touches[0] at (x, y).  The handler
\* stops propagation, so body's touchstart.tooltip does not run.
TouchStartImage(m, x, y) ==
  /\ Interactive
  /\ fingers < MaxFingers
  /\ fingers' = fingers + 1
  /\ IF touchState.currentTarget = m
     THEN /\ tooltip' = HideTooltip(tooltip)
          /\ transform' = [transform EXCEPT ![m] = NoTransform]
          /\ touchState' = [active |-> FALSE, currentTarget |-> NoPark]
          /\ lastTouch' = [target |-> m,
                           writes |-> <<[touchState EXCEPT !.active = TRUE],
                                        [active |-> TRUE, currentTarget |-> NoPark],
                                        [active |-> FALSE, currentTarget |-> NoPark]>>,
                           closed |-> tooltip.display # "none", ended |-> FALSE]
          /\ UNCHANGED lastCall
     ELSE LET prev == touchState.currentTarget
              cleared == ClearPrevious(prev, transform)
              shown == ShowTooltip(tooltip, m)
          IN /\ touchState' = [active |-> TRUE, currentTarget |-> m]
             /\ transform' = [cleared EXCEPT ![m] = TouchTransform]
             /\ tooltip' = PositionTooltip(shown, x, y, TouchPadding)
             /\ lastCall' = PositionCall(shown, x, y, TouchPadding)
             /\ lastTouch' = [target |-> m,
                              writes |-> <<[touchState EXCEPT !.active = TRUE],
                                           [active |-> TRUE, currentTarget |-> m]>>,
                              closed |-> FALSE, ended |-> FALSE]
  /\ lastEvent' = "touchstart"
  /\ UNCHANGED <<envVars, playFrame, hover>>

\* d3.select('body').on('touchstart.tooltip', ..) for a touch outside every image.
TouchStartOutside ==
  /\ Interactive
  /\ fingers < MaxFingers
  /\ fingers' = fingers + 1
  /\ tooltip' = HideTooltip(tooltip)
  /\ transform' = ClearPrevious(touchState.currentTarget, transform)
  /\ touchState' = [active |-> FALSE, currentTarget |-> NoPark]
  /\ lastTouch' = [target |-> NoPark,
                   writes |-> <<[touchState EXCEPT !.currentTarget = NoPark],
                                [active |-> FALSE, currentTarget |-> NoPark]>>,
                   closed |-> tooltip.display # "none", ended |-> FALSE]
  /\ lastEvent' = "touchstartOutside"
  /\ UNCHANGED <<envVars, now, counterStartTime, chronologicalParks, lastProcessedIndex,
                 animatingParks, filter, counterText, counterComplete, rafQueue, running,
                 playHist, rafRequested, hover, lastCall>>

\* d3.select('body').on('touchend.tooltip', ..): the first requestAnimationFrame.
TouchEnd ==
  /\ Interactive
  /\ fingers > 0
  /\ Len(rafQueue) < MaxPendingFrames
  /\ fingers' = fingers - 1
  /\ rafQueue' = Append(rafQueue, "touchEndOuter")
  /\ rafRequested' = rafRequested \cup {"touchEndOuter"}
  /\ lastTouch' = [lastTouch EXCEPT !.ended = TRUE]
  /\ lastEvent' = "touchend"
  /\ UNCHANGED <<envVars, now, counterStartTime, chronologicalParks, lastProcessedIndex,
                 animatingParks, filter, transform, counterText, counterComplete,
                 running, playHist, touchState, tooltip, hover, lastCall>>

\* The outer frame callback of touchend: it requests the inner one.
TouchEndOuter ==
  /\ running # <<>>
  /\ Head(running) = "touchEndOuter"
  /\ running' = Tail(running)
  /\ rafQueue' = Append(rafQueue, "touchEndInner")
  /\ rafRequested' = rafRequested \cup {"touchEndInner"}
  /\ lastEvent' = "touchEndOuter"
  /\ UNCHANGED <<envVars, now, counterStartTime, chronologicalParks, lastProcessedIndex,
                 animatingParks, filter, transform, counterText, counterComplete,
                 playHist, tipVars>>

\* Mutant of SettleActive: the inner callback leaves touchState alone.
SettleActiveKeep(ts, tip) == ts

\* if (touchState.active && tooltip.style('display') !== 'none') touchState.active = false
SettleActive(ts, tip) ==
  IF ts.active /\ tip.display # "none" THEN [ts EXCEPT !.active = FALSE] ELSE ts

\* The inner frame callback of touchend.
TouchEndInner ==
  /\ running # <<>>
  /\ Head(running) = "touchEndInner"
  /\ running' = Tail(running)
  /\ touchState' = SettleActive(touchState, tooltip)
  /\ lastEvent' = "touchEndInner"
  /\ UNCHANGED <<envVars, now, counterStartTime, chronologicalParks, lastProcessedIndex,
                 animatingParks, filter, transform, counterText, counterComplete,
                 rafQueue, playHist, rafRequested, tooltip, hover, fingers, lastCall,
                 lastTouch>>

\* A frame for the touch callbacks, which take no timestamp.
TouchFrame == FrameAt(now)

\* ---------------------------------------------------------- specifications

DefaultViewport == [vv |-> FALSE, width |-> 400, height |-> 300,
                    offsetLeft |-> 0, offsetTop |-> 0,
                    innerWidth |-> 400, innerHeight |-> 300]
DefaultTip == [w |-> 200, h |-> 80]

\* A playback: the reveal, the counter and the pop-in loop on the frame clock.
Init ==
  InitWith(VisitLists(MaxPlayVisits, PlayDates), {Parks, Parks \ {"c"}},
           {DefaultViewport}, {DefaultTip}, {simulationIterations})

Next ==
  \/ RenderMap
  \/ ImageSettled
  \/ StartAnimations
  \/ BeginFrame
  \/ AnimateReveal
  \/ AnimateCount
  \/ UpdateAnimatingParks

Spec == Init /\ [][Next]_vars

\* The playback on a fair frame clock: frames keep coming, with advancing
\* timestamps, as long as a callback is pending.  The clock stops at
\* 100 * LastFrame, so while the reveal is unfinished a frame is taken only if a
\* whole pop-in still fits after it.
LiveVisits == VisitLists(2, PlayDates)

InitLive ==
  InitWith(LiveVisits, {Parks, Parks \ {"c"}}, {DefaultViewport}, {DefaultTip},
           {simulationIterations})

LiveFrame ==
  \E t \in FrameTimes :
     /\ t > now
     /\ revealFinishedAt # <<>> \/ t + individualDuration <= 100 * LastFrame
     /\ FrameAt(t)

NextLive ==
  \/ RenderMap
  \/ ImageSettled
  \/ StartAnimations
  \/ LiveFrame
  \/ AnimateReveal
  \/ AnimateCount
  \/ UpdateAnimatingParks

SpecLive == InitLive /\ [][NextLive]_vars /\ WF_vars(NextLive)

\* The ordering step alone: start-up over every visit list up to MaxVisits.
InitOrder ==
  InitWith(VisitLists(MaxVisits, DateStrings), {Parks}, {DefaultViewport}, {DefaultTip},
           {simulationIterations})

NextOrder ==
  \/ RenderMap
  \/ ImageSettled
  \/ StartAnimations

SpecOrder == InitOrder /\ [][NextOrder]_vars

\* The interaction controller on a page without visits (no playback runs).
ZoomedViewport == [vv |-> TRUE, width |-> 300, height |-> 200,
                   offsetLeft |-> 50, offsetTop |-> 20,
                   innerWidth |-> 400, innerHeight |-> 300]
SmallTip == [w |-> 120, h |-> 60]

InitTouch ==
  InitWith({<<>>}, {Parks \ {"c"}}, {DefaultViewport, ZoomedViewport},
           {DefaultTip, SmallTip}, {simulationIterations})

NextTouch ==
  \/ RenderMap
  \/ ImageSettled
  \/ StartAnimations
  \/ \E m \in nodes : MouseOver(m)
  \/ \E x \in Xs, y \in Ys : MouseMove(x, y)
  \/ MouseOut
  \/ \E m \in nodes, x \in Xs, y \in Ys : TouchStartImage(m, x, y)
  \/ TouchStartOutside
  \/ TouchEnd
  \/ TouchFrame
  \/ TouchEndOuter
  \/ TouchEndInner

SpecTouch == InitTouch /\ [][NextTouch]_vars

\* The interaction controller when the browser keeps delivering frames: a
\* frame runs while callbacks are pending, and a running frame runs each of
\* its callbacks.  Pointer and touch events stay free to happen or not.  One
\* viewport and one tooltip size: the layout plays no part in the flag.
TouchFairness ==
  /\ WF_vars(TouchFrame)
  /\ WF_vars(TouchEndOuter)
  /\ WF_vars(TouchEndInner)

InitTouchLive ==
  InitWith({<<>>}, {Parks \ {"c"}}, {DefaultViewport}, {DefaultTip},
           {simulationIterations})

SpecTouchLive == InitTouchLive /\ [][NextTouch]_vars /\ TouchFairness

\* The whole page with no visit or one: start-up with zero or two
\* placeable parks and zero or five layout passes, then the playback and the
\* interaction controller together, with one pointer position.  Images settle,
\* the transition ends and frames keep coming as long as one is requested.
PageVisits == {<<>>, <<[parkCode |-> "b", date |-> "2021-05-01"]>>}

InitPage ==
  InitWith(PageVisits, {{}, {"b", "c"}},
           {DefaultViewport}, {DefaultTip}, {0, simulationIterations})

\* The frame clock of the whole-page run: a frame at startTime, one when the
\* playback's duration is over and one a pop-in later; and any number of frames
\* for the touch callbacks, which take no timestamp, when only they are pending.
PageTimes == {0, duration, duration + individualDuration}

OnlyTouchCallbacks == Range(rafQueue) \subseteq {"touchEndOuter", "touchEndInner"}

PageFrame ==
  \/ \E t \in PageTimes : t > now /\ FrameAt(t)
  \/ OnlyTouchCallbacks /\ FrameAt(now)

NextPage ==
  \/ RenderMap
  \/ ImageSettled
  \/ StartAnimations
  \/ PageFrame
  \/ AnimateReveal
  \/ AnimateCount
  \/ UpdateAnimatingParks
  \/ \E m \in nodes : MouseOver(m)
  \/ MouseMove(200, 220)
  \/ MouseOut
  \/ \E m \in nodes : TouchStartImage(m, 200, 220)
  \/ TouchStartOutside
  \/ TouchEnd
  \/ TouchEndOuter
  \/ TouchEndInner

SpecPage == InitPage /\ [][NextPage]_vars /\ WF_vars(NextPage)

\* ------------------------------------------------------ playback: claims

NoDuplicates(s) == \A i, j \in DOMAIN s : s[i] = s[j] => i = j

\* The state right after a tick of the pop-in loop (now is still the tick's timestamp).
AfterTick == lastEvent = "updateAnimatingParks"

\* C1: a pop-in task (start t0, duration D = 200 ms) leaves the active list, with
\* its transform cleared, in a tick exactly when that tick's timestamp satisfies
\* now - t0 >= D, so it completes at the first such tick and at no earlier one;
\* it completes once, and a completed task is never in the active list (and so
\* never updated) again.
C1_CompletesOnceAtFirstDueTick ==
  /\ AfterTick =>
       \A i \in DOMAIN tickBefore :
         LET task == tickBefore[i]
             due == now - task.startTime >= 200
         IN /\ due <=> task \notin Range(animatingParks)
            /\ due => /\ transform[task.park] = NoTransform
                      /\ task.park \in Range(completions)
            /\ ~due => task.park \notin Range(completions)
  /\ NoDuplicates(completions)
  /\ \A i \in DOMAIN animatingParks : animatingParks[i].park \notin Range(completions)
  /\ \A k \in DOMAIN tickLog :
       \E i \in DOMAIN tickBefore : tickBefore[i].park = tickLog[k].park

\* C1 witness: a tick that completed one task exactly at now - t0 = D and another
\* later than that, while a younger task stayed active.
C1_Witness ==
  /\ AfterTick
  /\ \E i, j \in DOMAIN tickBefore :
        /\ now - tickBefore[i].startTime >= 200
        /\ tickBefore[i] \notin Range(animatingParks)
        /\ now - tickBefore[j].startTime < 200
        /\ tickBefore[j] \in Range(animatingParks)

\* C2 (as claimed): from one frame of animateReveal to the next the cursor never
\* decreases, and the progress every frame computes lies in [0, 1].
C2_CursorMonotoneProgressInUnitInterval ==
  [][lastEvent' = "animateReveal" =>
       /\ lastProcessedIndex' >= lastProcessedIndex
       /\ 0 <= revealProgress' /\ revealProgress' <= duration]_vars

\* The end of the frame in which animateReveal saw progress >= 1.
EndOfFinalFrame == revealFinishedAt = <<now>> /\ running = <<>>

\* C3 (as claimed): at the end of the reveal's final frame the cursor and the
\* counter both equal the number of distinct visited parks, and neither loop has
\* requested another frame.
C3_FinalFrameCursorAndCounter ==
  EndOfFinalFrame =>
    /\ lastProcessedIndex = UniqueParkCount(visits)
    /\ counterText = <<UniqueParkCount(visits)>>
    /\ "animateReveal" \notin Range(rafQueue)
    /\ "animateCount" \notin Range(rafQueue)

\* C4: the reveal loop processes the indices 0, 1, 2, .. of the sequence each
\* once and in order, up to the cursor (every index once the playback is over);
\* a rendered park has the revealed treatment exactly when its index has been
\* processed; no park has two tasks in the active list.
C4_EveryIndexOnce ==
  /\ phase = "playing" => Len(revealLog) = lastProcessedIndex
  /\ \A k \in DOMAIN revealLog :
       /\ revealLog[k].index = k - 1
       /\ revealLog[k].park = chronologicalParks[k]
  /\ revealFinishedAt # <<>> => Len(revealLog) = Len(chronologicalParks)
  /\ \A p \in nodes :
       filter[p] = "" <=> \E k \in DOMAIN revealLog : revealLog[k].park = p
  /\ \A i, j \in DOMAIN animatingParks :
       animatingParks[i].park = animatingParks[j].park => i = j

\* C4 witness: a finished playback of three parks with two pop-ins still active.
C4_Witness ==
  /\ revealFinishedAt # <<>>
  /\ Len(revealLog) = 3
  /\ Len(animatingParks) >= 2

\* C6: with an empty visit list the start handler writes 0 to the counter, and
\* no frame callback is ever requested, no task registered, no index processed
\* and no image's filter or transform changed.
C6_EmptyVisits ==
  (phase = "playing" /\ visits = <<>>) =>
    /\ counterText = <<0>>
    /\ rafRequested = {}
    /\ rafQueue = <<>> /\ running = <<>>
    /\ animatingParks = <<>> /\ revealLog = <<>> /\ tickLog = <<>>
    /\ \A p \in nodes : filter[p] = "inset" /\ transform[p] = NoTransform

C6_Witness == phase = "playing" /\ visits = <<>> /\ nodes # {} /\ counterText = <<0>>

\* C10: a tick updates every task that was active when it began exactly once,
\* with progress min((now - its startTime) / 200, 1); the tasks it leaves active
\* keep their order; and a task never outlives one that started after it.
C10_EachTaskOncePerTick ==
  AfterTick =>
    /\ Len(tickLog) = Len(tickBefore)
    /\ \A i \in DOMAIN tickBefore :
         Cardinality({k \in DOMAIN tickLog :
                        /\ tickLog[k].park = tickBefore[i].park
                        /\ tickLog[k].startTime = tickBefore[i].startTime}) = 1
    /\ \A k \in DOMAIN tickLog :
         /\ tickLog[k].at = now
         /\ tickLog[k].progress = Min(now - tickLog[k].startTime, 200)
    /\ \A i, j \in DOMAIN tickBefore :
         (/\ tickBefore[i].startTime < tickBefore[j].startTime
          /\ tickBefore[j] \notin Range(animatingParks))
         => tickBefore[i] \notin Range(animatingParks)
    /\ \A i, j \in DOMAIN animatingParks :
         i < j => \E a, b \in DOMAIN tickBefore :
                    a < b /\ tickBefore[a] = animatingParks[i]
                          /\ tickBefore[b] = animatingParks[j]

\* C10 witness: a tick over three tasks that completed two of them and kept one.
C10_Witness ==
  /\ AfterTick
  /\ Len(tickBefore) = 3
  /\ Len(animatingParks) = 1
  /\ Len(tickLog) = 3

\* ------------------------------------------------------ ordering: claims

AllDatesParse == \A i \in DOMAIN visits : ~IsNaN(DateValue(visits[i].date))

\* The date value of park p's earliest visit (p is visited, every date parses).
EarliestVisit(p) ==
  LET ds == {DateValue(visits[i].date)[1] : i \in {k \in DOMAIN visits : visits[k].parkCode = p}}
  IN CHOOSE d \in ds : \A e \in ds : d <= e

\* C5: when every visit date parses, the reveal sequence holds each visited park
\* exactly once, in ascending order of the parks' earliest visit dates.
C5_OrderedByEarliestVisit ==
  (phase = "playing" /\ AllDatesParse) =>
    /\ NoDuplicates(chronologicalParks)
    /\ Range(chronologicalParks) = {visits[i].parkCode : i \in DOMAIN visits}
    /\ \A i, j \in DOMAIN chronologicalParks :
         i < j => EarliestVisit(chronologicalParks[i]) <= EarliestVisit(chronologicalParks[j])

\* C5 witness: the visits a@2021-05-01, b@2020-01-01, a@2022-01-01 (here as
\* renderVisitsTable left them, newest first) give the order [b, a].
C5_Witness ==
  /\ phase = "playing"
  /\ visits = <<[parkCode |-> "a", date |-> "2022-01-01"],
                [parkCode |-> "a", date |-> "2021-05-01"],
                [parkCode |-> "b", date |-> "2020-01-01"]>>
  /\ chronologicalParks = <<"b", "a">>

\* --------------------------------------------------- interaction: claims

\* C7: while touchState.active is true, a mouseover, mousemove or mouseout
\* handler leaves the tooltip (display, content, position, flip flags) as it was.
C7_MouseSuppressedWhileActive ==
  [][(touchState.active /\ lastEvent' \in {"mouseover", "mousemove", "mouseout"})
       => tooltip' = tooltip]_vars

\* C7 witness: a mousemove was handled while a touch had the tooltip open.
C7_Witness ==
  /\ touchState.active
  /\ lastEvent = "mousemove"
  /\ tooltip.display = "block"
  /\ hover # NoPark

\* The visible viewport as the claims describe it: the visual viewport's size and
\* offset when there is one, else the window's size at offset 0.
VisibleWidth == IF viewport.vv THEN viewport.width ELSE viewport.innerWidth
VisibleHeight == IF viewport.vv THEN viewport.height ELSE viewport.innerHeight
VisibleLeft == IF viewport.vv THEN viewport.offsetLeft ELSE 0
VisibleTop == IF viewport.vv THEN viewport.offsetTop ELSE 0

\* C8: after positionTooltip(x, y, padding) on a tooltip of size w by h, flip-x
\* is set exactly when (x - offsetX) + w > viewportWidth - padding, flip-y exactly
\* when (y - offsetY) + h > viewportHeight - padding, and --tx, --ty are x, y.
C8_FlipPerAxis ==
  lastCall # <<>> =>
    LET x == lastCall[1]
        y == lastCall[2]
        padding == lastCall[3]
        w == lastCall[4]
        h == lastCall[5]
    IN /\ tooltip.flipX <=> (x - VisibleLeft) + w > VisibleWidth - padding
       /\ tooltip.flipY <=> (y - VisibleTop) + h > VisibleHeight - padding
       /\ tooltip.pos = <<x, y>>

\* C8 witness: anchor (viewportWidth - 5, 10), tooltip 200 by 80, padding 0 on a
\* 400 by 300 window: flipped horizontally, not vertically.
C8_Witness ==
  /\ viewport = DefaultViewport
  /\ lastCall = <<395, 10, 0, 200, 80>>
  /\ tooltip.flipX
  /\ ~tooltip.flipY

AnchorInside ==
  /\ VisibleLeft <= lastCall[1] /\ lastCall[1] <= VisibleLeft + VisibleWidth
  /\ VisibleTop <= lastCall[2] /\ lastCall[2] <= VisibleTop + VisibleHeight

InsideX ==
  LET left == TooltipLeft(lastCall[1], lastCall[4], tooltip.flipX)
  IN VisibleLeft <= left /\ left + lastCall[4] <= VisibleLeft + VisibleWidth

InsideY ==
  LET top == TooltipTop(lastCall[2], lastCall[5], tooltip.flipY)
  IN VisibleTop <= top /\ top + lastCall[5] <= VisibleTop + VisibleHeight

\* C9 (as claimed): for every anchor inside the visible viewport and every
\* tooltip size the placed tooltip lies inside the visible viewport on both axes.
C9_NeverOverflows ==
  (lastCall # <<>> /\ AnchorInside) => (InsideX /\ InsideY)

\* C9 (amended): for every anchor inside the visible viewport, the placed tooltip
\* lies inside the visible viewport on each axis on which its extent is at most
\* half of (viewport extent - padding).
C9_FitsWhenAtMostHalf ==
  (lastCall # <<>> /\ AnchorInside) =>
    /\ 2 * lastCall[4] <= VisibleWidth - lastCall[3] => InsideX
    /\ 2 * lastCall[5] <= VisibleHeight - lastCall[3] => InsideY

\* C9 witness: a visible tooltip small enough on both axes, flipped on both.
C9_Witness ==
  /\ lastCall # <<>>
  /\ AnchorInside
  /\ lastCall[4] > 0
  /\ 2 * lastCall[4] <= VisibleWidth - lastCall[3]
  /\ 2 * lastCall[5] <= VisibleHeight - lastCall[3]
  /\ tooltip.flipX /\ tooltip.flipY
  /\ InsideX /\ InsideY

\* ------------------------------------------------------ start-up: claims

VisitedParks == {visits[i].parkCode : i \in DOMAIN visits}

\* C11 (as claimed): a park the projector returns nothing for is in neither the
\* node list nor the layout, the reveal sequence does not hold it, and the
\* counter's final value does not count it, whatever the visits reference.
C11_UnplaceableCountedNowhere ==
  /\ phase # "loaded" => (nodes \subseteq placeable /\ DOMAIN layout \subseteq placeable)
  /\ phase = "playing" => Range(chronologicalParks) \subseteq placeable
  /\ counterComplete => counterText = <<Cardinality(VisitedParks \cap placeable)>>

\* C12 (as claimed): with zero markers and zero visits the start-up, once it
\* waits for the images, goes on to install the handlers, with the counter at 0
\* and nothing scheduled.
C12_ZeroMarkersStartUpCompletes ==
  (phase = "rendered" /\ nodes = {} /\ visits = <<>>)
    ~> (phase = "playing" /\ counterText = <<0>> /\ rafQueue = <<>> /\ animatingParks = <<>>)

\* The end of a frame of the playback.
EndOfPlaybackFrame ==
  /\ phase = "playing"
  /\ running = <<>>
  /\ lastEvent \in {"animateReveal", "animateCount", "updateAnimatingParks"}

\* The markers switched from the dormant to the revealed treatment.
Revealed == {p \in nodes : filter[p] = ""}

\* C13 (as claimed): at the end of every frame of the playback the counter shows
\* the number of markers revealed so far.
C13_CounterEqualsRevealed ==
  EndOfPlaybackFrame => counterText = <<Cardinality(Revealed)>>

\* C14: after node creation every node's anchor and radius are what
\* createParkNodes computed; with a pass count of 0 every node's position is its
\* anchor; and once the layout step is over no step of the start-up, the
\* playback or the interaction controller writes a node's r, px, py, x or y.
C14_AnchorsFixedZeroPassesAtAnchor ==
  /\ [](phase # "loaded" =>
          /\ DOMAIN layout = nodes
          /\ \A p \in nodes :
               /\ layout[p].px = Coords(p)[1]
               /\ layout[p].py = Coords(p)[2]
               /\ layout[p].r = Radius(p)
               /\ config.simulationIterations = 0 =>
                    (layout[p].x = layout[p].px /\ layout[p].y = layout[p].py))
  /\ [][phase # "loaded" => layout' = layout]_vars

\* C14 witness: two overlapping markers laid out with 0 passes rest on their
\* anchors after a playback has revealed one and a touch has selected one.
C14_Witness ==
  /\ config.simulationIterations = 0
  /\ nodes = {"b", "c"}
  /\ Overlap("b", "c")
  /\ layout["b"].x = layout["b"].px /\ layout["c"].x = layout["c"].px
  /\ revealFinishedAt # <<>>
  /\ touchState.currentTarget = "b"

\* C16 (as claimed): in the frame in which animateReveal first sees progress >= 1,
\* every index it processes is revealed by the final pass and gets no pop-in
\* task, every rendered park of the sequence ends revealed, and the counter
\* reads the length of the sequence.
C16_FinalizationPassRevealsRest ==
  [][(lastEvent' = "animateReveal" /\ revealFinishedAt = <<>> /\ revealFinishedAt' # <<>>) =>
       /\ \A k \in (Len(revealLog) + 1)..Len(revealLog') :
            revealLog'[k].pass = "final" /\ ~revealLog'[k].animated
       /\ animatingParks' = animatingParks
       /\ \A p \in nodes : p \in Range(chronologicalParks) => filter'[p] = ""
       /\ counterText' = <<Len(chronologicalParks)>>]_vars

\* --------------------------------------------------------- touch: claims

\* C17 (as claimed): a marker's touchstart handler sets active first, and active
\* goes from true to false only in the inner frame callback of a touchend.
C17_ActiveClearedOnlyByInnerFrame ==
  [][/\ lastEvent' = "touchstart" => lastTouch'.writes[1].active
     /\ (touchState.active /\ ~touchState'.active) => lastEvent' = "touchEndInner"]_vars

\* C18 (as claimed): a mouseover or mousemove on a marker that is handled right
\* after the touchstart that closed the tooltip (so before any frame callback of
\* that touch's end) leaves the tooltip as it is.
C18_NoReopenAfterClosingTap ==
  [][(/\ lastEvent \in {"touchstart", "touchstartOutside"}
      /\ lastTouch.closed
      /\ lastEvent' \in {"mouseover", "mousemove"})
       => tooltip' = tooltip]_vars

\* C19: a touchstart on marker B while another marker A is selected clears A's
\* transform, enlarges B, shows the tooltip with B's content and makes B the
\* current target, and no value written to currentTarget on the way is none.
C19_DirectRetarget ==
  [][(/\ lastEvent' = "touchstart"
      /\ touchState.currentTarget # NoPark
      /\ lastTouch'.target # touchState.currentTarget)
       => /\ transform'[touchState.currentTarget] = NoTransform
          /\ transform'[lastTouch'.target] = TouchTransform
          /\ tooltip'.content = lastTouch'.target
          /\ tooltip'.display = "block"
          /\ touchState'.currentTarget = lastTouch'.target
          /\ \A i \in DOMAIN lastTouch'.writes :
               lastTouch'.writes[i].currentTarget # NoPark]_vars

\* C19 witness: b was tapped while a was selected.
C19_Witness ==
  /\ lastEvent = "touchstart"
  /\ lastTouch.target = "b"
  /\ lastTouch.writes[1].currentTarget = "a"
  /\ touchState.currentTarget = "b"
  /\ transform["a"] = NoTransform
  /\ transform["b"] = TouchTransform
  /\ tooltip.content = "b"

\* C20: a touchstart on the selected marker, or outside every marker, hides the
\* tooltip, clears the selected marker's transform and leaves no current target;
\* a touchstart on a marker while none is selected shows the tooltip with that
\* marker's content, enlarges it and makes it the current target.
C20_ToggleAndSelect ==
  [][/\ (\/ lastEvent' = "touchstartOutside"
         \/ lastEvent' = "touchstart" /\ lastTouch'.target = touchState.currentTarget)
        => /\ tooltip'.display = "none"
           /\ touchState.currentTarget # NoPark =>
                transform'[touchState.currentTarget] = NoTransform
           /\ touchState'.currentTarget = NoPark
     /\ (lastEvent' = "touchstart" /\ touchState.currentTarget = NoPark)
        => /\ tooltip'.display = "block"
           /\ tooltip'.content = lastTouch'.target
           /\ transform'[lastTouch'.target] = TouchTransform
           /\ touchState'.currentTarget = lastTouch'.target]_vars

\* C20 witness: the second tap on the selected marker closed its tooltip.
C20_Witness ==
  /\ lastEvent = "touchstart"
  /\ lastTouch.closed
  /\ lastTouch.target = "a"
  /\ touchState.currentTarget = NoPark
  /\ tooltip.display = "none"
  /\ transform["a"] = NoTransform

\* --------------------------------------------------- pop-in loop: claims

Count(seq, x) == Cardinality({i \in DOMAIN seq : seq[i] = x})

\* C21: at most one updateAnimatingParks callback is pending at any time, and
\* between frames one is pending exactly when the active list is non-empty; a
\* tick requests the next one exactly when it leaves a task active, and
\* animateReveal requests one exactly when it registers into an empty list.
C21_OnePopInLoop ==
  /\ [](/\ Count(rafQueue \o running, "updateAnimatingParks") <= 1
        /\ (phase = "playing" /\ running = <<>>) =>
             (Count(rafQueue, "updateAnimatingParks") = 1 <=> animatingParks # <<>>))
  /\ [][/\ lastEvent' = "updateAnimatingParks" =>
             Count(rafQueue', "updateAnimatingParks") =
               Count(rafQueue, "updateAnimatingParks")
                 + (IF animatingParks' # <<>> THEN 1 ELSE 0)
        /\ lastEvent' = "animateReveal" =>
             Count(rafQueue', "updateAnimatingParks") =
               Count(rafQueue, "updateAnimatingParks")
                 + (IF animatingParks = <<>> /\ animatingParks' # <<>> THEN 1 ELSE 0)]_vars

\* C21 witness: between two frames, after a tick that completed a task, two
\* tasks are active and one loop callback is pending.
C21_Witness ==
  /\ phase = "playing"
  /\ running = <<>>
  /\ Len(animatingParks) = 2
  /\ completions # <<>>
  /\ Count(rafQueue, "updateAnimatingParks") = 1

\* C22: every task a tick updates was registered in an earlier frame (its start
\* timestamp is before the tick's) and is updated with progress measured from
\* that timestamp; a task registered in the current frame carries the frame's
\* timestamp, and no tick is left to run in that frame.
C22_FirstUpdateInLaterFrame ==
  /\ [](/\ AfterTick =>
             \A k \in DOMAIN tickLog :
               /\ tickLog[k].startTime < now
               /\ tickLog[k].progress = Min(now - tickLog[k].startTime, individualDuration)
        /\ \A i \in DOMAIN animatingParks :
             animatingParks[i].startTime = now =>
               "updateAnimatingParks" \notin Range(running))
  /\ [][lastEvent' = "animateReveal" =>
          \A i \in (Len(animatingParks) + 1)..Len(animatingParks') :
            /\ animatingParks'[i].startTime = now'
            /\ lastProcessedIndex' > lastProcessedIndex]_vars

\* C22 witness: animateReveal registered a task in a frame whose tick had
\* already run (on an older task).
C22_Witness ==
  /\ lastEvent = "animateReveal"
  /\ \E i \in DOMAIN animatingParks : animatingParks[i].startTime = now
  /\ \E k \in DOMAIN tickLog : tickLog[k].at = now /\ tickLog[k].startTime < now

\* The playback is over: no task is active, no callback is pending, every
\* marker's transform is none and every rendered park of the sequence is revealed.
PlaybackSettled ==
  /\ phase = "playing"
  /\ animatingParks = <<>>
  /\ rafQueue = <<>> /\ running = <<>>
  /\ \A p \in nodes : transform[p] = NoTransform
  /\ \A p \in nodes : p \in Range(chronologicalParks) => filter[p] = ""
  /\ \A k \in DOMAIN revealLog : revealLog[k].animated => revealLog[k].park \in Range(completions)

\* C23: with frames delivered as long as a callback is pending, the playback
\* eventually settles for good: every registered task has completed, every
\* transform is none, the active list is empty and no callback is pending.
C23_PlaybackSettles == <>[]PlaybackSettled

\* C23 witness: a settled playback that ran two pop-ins.
C23_Witness ==
  /\ PlaybackSettled
  /\ Len(completions) = 2
  /\ revealFinishedAt # <<>>

\* C24: a rendered marker that no visit names keeps the inset filter, has no
\* task, no transform and no completion; a marker without the inset filter is in
\* the reveal sequence.
C24_UnvisitedStayDormant ==
  \A p \in nodes :
    /\ p \notin VisitedParks =>
         /\ filter[p] = "inset"
         /\ transform[p] = NoTransform
         /\ \A i \in DOMAIN animatingParks : animatingParks[i].park # p
         /\ p \notin Range(completions)
    /\ filter[p] = "" => p \in Range(chronologicalParks)

\* C24 witness: after the playback a is revealed and the unvisited b is dormant.
C24_Witness ==
  /\ revealFinishedAt # <<>>
  /\ {"a", "b"} \subseteq nodes
  /\ "b" \notin VisitedParks
  /\ filter["a"] = ""
  /\ filter["b"] = "inset"

\* ------------------------------------------------ ordering: more claims

ParsedVisits == {i \in DOMAIN visits : ~IsNaN(DateValue(visits[i].date))}

EarliestParsed(p) ==
  LET ds == {DateValue(visits[i].date)[1] : i \in {k \in ParsedVisits : visits[k].parkCode = p}}
  IN CHOOSE d \in ds : \A e \in ds : d <= e

\* C25 (as claimed): the reveal sequence holds exactly the parks that have a
\* visit whose date parses, in ascending order of their earliest such date.
C25_UnparseableExcluded ==
  phase = "playing" =>
    /\ Range(chronologicalParks) = {visits[i].parkCode : i \in ParsedVisits}
    /\ \A i, j \in DOMAIN chronologicalParks :
         i < j => EarliestParsed(chronologicalParks[i]) <= EarliestParsed(chronologicalParks[j])

\* The position in the input list of park p's first visit: the first of its
\* visits that carry its earliest date.
FirstInputIndex(p) ==
  LET ks == {k \in DOMAIN inputVisits :
               /\ inputVisits[k].parkCode = p
               /\ DateValue(inputVisits[k].date) = <<EarliestVisit(p)>>}
  IN CHOOSE k \in ks : \A j \in ks : k <= j

\* C26: when every date parses, two parks whose first visits have the same date
\* stand in the reveal sequence in the order of those visits in the input list.
C26_TiesInInputOrder ==
  (phase = "playing" /\ AllDatesParse) =>
    \A i, j \in DOMAIN chronologicalParks :
      (i < j /\ EarliestVisit(chronologicalParks[i]) = EarliestVisit(chronologicalParks[j]))
        => FirstInputIndex(chronologicalParks[i]) < FirstInputIndex(chronologicalParks[j])

\* C26 witness: b and a tie on 2020-01-01 and the table's sort moved both behind c.
C26_Witness ==
  /\ phase = "playing"
  /\ inputVisits = <<[parkCode |-> "b", date |-> "2020-01-01"],
                     [parkCode |-> "a", date |-> "2020-01-01"],
                     [parkCode |-> "c", date |-> "2022-01-01"]>>
  /\ visits # inputVisits
  /\ chronologicalParks = <<"b", "a", "c">>

\* ------------------------------------------------ start-up: more claims

\* C27: the animations start (and the counter is first written) only once every
\* image has settled, by load or by error; the wait is resolved by the event
\* that settles the last image and by nothing else, and it is resolved once.
C27_StartAfterAllImagesSettled ==
  /\ [](/\ phase \in {"shown", "playing"} => loadedCount = Cardinality(nodes)
        /\ (phase = "rendered" /\ nodes # {}) => loadedCount < Cardinality(nodes)
        /\ phase # "playing" =>
             (rafRequested = {} /\ counterText = <<>> /\ chronologicalParks = <<>>))
  /\ [][/\ (phase = "rendered" /\ phase' # "rendered") =>
             /\ lastEvent' \in SettleEvents
             /\ loadedCount' = Cardinality(nodes)
             /\ phase' = "shown"
        /\ phase' = "rendered" => phase \in {"loaded", "rendered"}]_vars

\* C27 witness: the third and last image settled by an error and resolved the wait.
C27_Witness ==
  /\ phase = "shown"
  /\ lastEvent = "imageError"
  /\ loadedCount = 3

\* ---------------------------------------------------- touch: more claims

\* C28 (as claimed): while a marker is the current target the tooltip is
\* displayed with that marker's content.
C28_PinnedTooltipVisible ==
  touchState.currentTarget # NoPark =>
    (tooltip.display = "block" /\ tooltip.content = touchState.currentTarget)

\* C29 (as claimed): the current target carries the touch enlargement and no
\* other marker does.
C29_PinnedKeepsEnlargement ==
  touchState.currentTarget # NoPark =>
    \A p \in nodes : transform[p] = TouchTransform <=> p = touchState.currentTarget

\* C30 (as claimed): after the touchstart that selected the current target, and
\* as long as no touch has ended since, active is true.
C30_ActiveUntilOwnTouchSettles ==
  (/\ lastTouch.target # NoPark
   /\ touchState.currentTarget = lastTouch.target
   /\ ~lastTouch.ended)
    => touchState.active

\* C31: after a tap that selects a marker and the touch-end that follows it,
\* if frames keep being delivered then touchState.active becomes false, unless
\* a further touch starts first: hover handling is not suppressed forever.
SelectingTapEnded ==
  /\ lastTouch.target # NoPark
  /\ ~lastTouch.closed
  /\ lastTouch.ended

C31_ActiveEventuallyCleared ==
  (SelectingTapEnded /\ touchState.active) ~> (~touchState.active \/ ~lastTouch.ended)

\* The inner callback has just cleared active after a selecting tap that
\* ended, and the marker is still pinned with its tooltip shown.
C31_Witness ==
  /\ SelectingTapEnded
  /\ lastEvent = "touchEndInner"
  /\ ~touchState.active
  /\ touchState.currentTarget = lastTouch.target
  /\ tooltip.display # "none"

====
